---- MODULE Spec2Model ----
(***************************************************************************)
(* The token module of dragon (src/src/lib.rs): the Lexer iterator that    *)
(* drives a client State automaton over a source string, one call of       *)
(* handle_char per lookahead character, and turns the returned Step into   *)
(* lexeme boundaries.                                                      *)
(*                                                                         *)
(* The source is a sequence of characters; its bytes are the UTF-8         *)
(* encoding of the characters and every offset of the model is a byte      *)
(* offset, as in char_indices().  One pull (Lexer::next) is a run of       *)
(* actions, one per loop iteration, sequenced by pc.                       *)
(***************************************************************************)
EXTENDS Integers, Sequences, FiniteSets, TLC

VARIABLES
  automaton,  \* which State implementation drives the engine
  src,        \* Lexer.src, as a sequence of characters
  delta,      \* the arms of the client's handle_char met so far ("any")
  fin,        \* the arms of the client's try_finish met so far ("any")
  pos,        \* Lexer.iter: number of (index, char) items already taken
  start,      \* Lexer.start (byte offset)
  state,      \* Lexer.state
  done,       \* Lexer.done
  pc,         \* "idle" between two pulls, "loop" inside next, "panic"
  first,      \* no handle_char call was made yet in the running pull
  ret,        \* what the last finished pull returned
  ev,         \* the last operation performed and the state it acted on
  out,        \* the values returned by the pulls so far, in order, each
              \* with the operation that returned it
  spans,      \* the byte ranges of the lexemes and discards so far, in order
  calls,      \* the handle_char calls made so far, in order
  other,      \* a second Lexer made by lex over the same source: its fields
              \* and its records
  symbols,    \* SymTable.0 of the calculator: the Vec of symbol texts
  symev,      \* the last SymTable operation, its arguments and its result
  handed,     \* for each text, the index first returned for it
  firsts,     \* the texts in the order of their first insert
  input,      \* the characters the Lexer of the calculator iterates over
  iter,       \* calculator Lexer.iter: number of characters already taken
  line,       \* calculator Lexer.line
  items       \* the values returned by the calculator Lexer's next, in order

symvars == <<symbols, symev, handed, firsts>>

lexvars == <<automaton, src, delta, fin, pos, start, state, done, pc, first,
             ret, ev, out, spans, calls, other>>

calcvars == <<input, iter, line, items>>

vars == <<lexvars, symvars, calcvars>>

---------------------------------------------------------------------------
(* Bounds of the model: the length of the sources drawn from a whole       *)
(* alphabet, and how many entries beyond what a source that is consumed in *)
(* full can cause are recorded of the pulls and of the handle_char calls.  *)

MaxLen == 3

MaxLog == 3

MaxCalls == 2

MaxNumbers == 2

MaxTwinLen == 2

MaxSymbols == 4

MaxCalcLen == 3

MaxRegexLen == 2

---------------------------------------------------------------------------
(* Characters and their UTF-8 encoding.  "U+00E9" names the two-byte        *)
(* character e-acute; every other character is written as itself.          *)

Utf8(c) ==
  CASE c = "1"  -> <<49>>
    [] c = "E"  -> <<69>>
    [] c = "x"  -> <<120>>
    [] c = "."  -> <<46>>
    [] c = "+"  -> <<43>>
    [] c = "-"  -> <<45>>
    [] c = " "  -> <<32>>
    [] c = "\n" -> <<10>>
    [] c = "@"  -> <<64>>
    [] c = "<"  -> <<60>>
    [] c = "="  -> <<61>>
    [] c = ">"  -> <<62>>
    [] c = "/"  -> <<47>>
    [] c = "*"  -> <<42>>
    [] c = "a"  -> <<97>>
    [] c = "("  -> <<40>>
    [] c = ")"  -> <<41>>
    [] c = "|"  -> <<124>>
    [] c = "U+00E9"  -> <<195, 169>>

RECURSIVE Bytes(_)
Bytes(s) == IF s = <<>> THEN <<>> ELSE Utf8(Head(s)) \o Bytes(Tail(s))

SrcLen == Len(Bytes(src))

IsCharBoundary(b, i) ==
  \/ i = 0
  \/ i = Len(b)
  \/ /\ i > 0
     /\ i < Len(b)
     /\ (b[i + 1] < 128 \/ b[i + 1] >= 192)

CharIndices ==
  [i \in 1..Len(src) |-> <<Len(Bytes(SubSeq(src, 1, i - 1))), src[i]>>]

RECURSIVE SeqsUpTo(_, _)
SeqsUpTo(S, n) ==
  IF n = 0 THEN {<<>>}
  ELSE LET shorter == SeqsUpTo(S, n - 1)
       IN  shorter \cup {Append(s, c) : s \in {t \in shorter : Len(t) = n - 1}, c \in S}

---------------------------------------------------------------------------
(* enum Step. *)

Discard == [kind |-> "Discard", arg |-> "None", flag |-> FALSE]

Continue(s) == [kind |-> "Continue", arg |-> s, flag |-> FALSE]

Finish(t, b) == [kind |-> "Finish", arg |-> t, flag |-> b]

Abort(e) == [kind |-> "Abort", arg |-> e, flag |-> FALSE]

Unset == [kind |-> "Unset", arg |-> "None", flag |-> FALSE]

---------------------------------------------------------------------------
(* The State implementation of src/src/bin/lexer.rs. *)

LexerChars == {"1", "E", "x", ".", "+", " ", "@", "<", "=", ">", "/", "*"}

LexerStates ==
  {"Start", "Lt", "Gt", "Id", "FloatLead", "FloatTrailFirst", "FloatTrail",
   "FloatE", "FloatExpFirst", "FloatExp", "Slash", "Comment", "BlockComment",
   "BlockCommentEnd"}

IsWhitespace(c) == c \in {" ", "\n"}

IsDigit(c) == c \in {"1"}

IsLetter(c) == c \in {"E", "x", "a"}

LexerHandleChar(s, c) ==
  CASE s = "Start" /\ IsWhitespace(c) -> Discard
    [] s = "Comment" /\ c = "\n" -> Discard
    [] s = "Start" /\ c = "/" -> Continue("Slash")
    [] s = "Slash" /\ c = "/" -> Continue("Comment")
    [] s = "BlockComment" /\ c = "*" -> Continue("BlockCommentEnd")
    [] s = "Comment" /\ c # "\n" -> Continue("None")
    [] s = "BlockComment" /\ c # "*" -> Continue("None")
    [] s = "BlockCommentEnd" /\ c = "/" -> Discard
    [] s = "Slash" /\ c = "*" -> Continue("BlockComment")
    [] s = "BlockCommentEnd" /\ c # "/" -> Continue("BlockComment")
    [] s = "Start" /\ c = "<" -> Continue("Lt")
    [] s = "Lt" /\ c = "=" -> Finish("LessEqual", TRUE)
    [] s = "Lt" /\ c = ">" -> Finish("NotEqual", TRUE)
    [] s = "Lt" /\ c \notin {"=", ">"} -> Finish("Less", FALSE)
    [] s = "Start" /\ c = "=" -> Finish("Equal", TRUE)
    [] s = "Start" /\ c = ">" -> Continue("Gt")
    [] s = "Gt" /\ c = "=" -> Finish("GreaterEqual", TRUE)
    [] s = "Gt" /\ c # "=" -> Finish("Greater", FALSE)
    [] s = "Start" /\ IsLetter(c) -> Continue("Id")
    [] s = "Id" /\ (IsLetter(c) \/ IsDigit(c)) -> Continue("None")
    [] s = "Id" /\ ~(IsLetter(c) \/ IsDigit(c)) -> Finish("Ident", FALSE)
    [] s = "Start" /\ IsDigit(c) -> Continue("FloatLead")
    [] s = "FloatLead" /\ IsDigit(c) -> Continue("None")
    [] s = "FloatLead" /\ c = "." -> Continue("FloatTrailFirst")
    [] s = "FloatTrailFirst" /\ IsDigit(c) -> Continue("FloatTrail")
    [] s = "FloatTrail" /\ IsDigit(c) -> Continue("None")
    [] s \in {"FloatLead", "FloatTrail"} /\ c = "E" -> Continue("FloatE")
    [] s = "FloatE" /\ c \in {"+", "-"} -> Continue("FloatExpFirst")
    [] s \in {"FloatE", "FloatExpFirst"} /\ IsDigit(c) -> Continue("FloatExp")
    [] s = "FloatExp" /\ IsDigit(c) -> Continue("None")
    [] s = "FloatLead" /\ ~IsDigit(c) /\ c \notin {".", "E"} -> Finish("Num", FALSE)
    [] s = "FloatTrail" /\ ~IsDigit(c) /\ c # "E" -> Finish("Num", FALSE)
    [] s = "FloatExp" /\ ~IsDigit(c) -> Finish("Num", FALSE)
    [] OTHER -> Abort(c)

(* try_finish with the start state final. *)
LexerTryFinish_StartIsFinal(s) ==
  CASE s \in {"Lt", "Start"} -> "Less"
    [] s = "Gt" -> "Greater"
    [] s = "Id" -> "Ident"
    [] s \in {"FloatLead", "FloatTrail", "FloatExp"} -> "Num"
    [] OTHER -> "None"

LexerTryFinish(s) ==
  CASE s = "Lt" -> "Less"
    [] s = "Gt" -> "Greater"
    [] s = "Id" -> "Ident"
    [] s \in {"FloatLead", "FloatTrail", "FloatExp"} -> "Num"
    [] OTHER -> "None"

---------------------------------------------------------------------------
(* The State implementation of the documentation example of the token      *)
(* module (floating-point numbers); its Token is the unit type.            *)

DocChars == {"1", ".", "E", "+", " "}

DocStates ==
  {"Start", "Leading", "TrailingFirst", "Trailing", "E", "ExponentFirst",
   "Exponent"}

DocHandleChar(s, c) ==
  CASE s = "Start" /\ IsWhitespace(c) -> Discard
    [] s = "Start" /\ IsDigit(c) -> Continue("Leading")
    [] s = "Leading" /\ c = "." -> Continue("TrailingFirst")
    [] s = "TrailingFirst" /\ IsDigit(c) -> Continue("Trailing")
    [] s \in {"Leading", "Trailing"} /\ c = "E" -> Continue("E")
    [] s = "E" /\ c \in {"+", "-"} -> Continue("ExponentFirst")
    [] s \in {"E", "ExponentFirst"} /\ IsDigit(c) -> Continue("Exponent")
    [] s \in {"Leading", "Trailing", "Exponent"} /\ IsDigit(c) -> Continue("None")
    [] s = "Leading" /\ ~IsDigit(c) /\ c \notin {".", "E"} -> Finish("Unit", FALSE)
    [] s = "Trailing" /\ ~IsDigit(c) /\ c # "E" -> Finish("Unit", FALSE)
    [] s = "Exponent" /\ ~IsDigit(c) -> Finish("Unit", FALSE)
    [] OTHER -> Abort(c)

DocTryFinish(s) ==
  IF s \in {"Leading", "Trailing", "Exponent"} THEN "Unit" ELSE "None"

---------------------------------------------------------------------------
(* The State implementation of nfa2dot.rs (regular expressions): a unit    *)
(* struct, every character a token of its own.                             *)

RegexChars == {"(", ")", "*", "|", "\n", "a", "U+00E9"}

(* handle_char with an Abort for the characters that are not special. *)
RegexHandleChar_AbortOnOther(s, c) ==
  CASE c = "(" -> Finish("OpenParen", TRUE)
    [] c = ")" -> Finish("CloseParen", TRUE)
    [] c = "*" -> Finish("Star", TRUE)
    [] c = "|" -> Finish("Pipe", TRUE)
    [] c = "\n" -> Discard
    [] OTHER -> Abort("()")

RegexHandleChar(s, c) ==
  CASE c = "(" -> Finish("OpenParen", TRUE)
    [] c = ")" -> Finish("CloseParen", TRUE)
    [] c = "*" -> Finish("Star", TRUE)
    [] c = "|" -> Finish("Pipe", TRUE)
    [] c = "\n" -> Discard
    [] OTHER -> Finish("NonSpecial", TRUE)

RegexTryFinish(s) == "None"

---------------------------------------------------------------------------
(* An arbitrary State implementation ("any"): a total, pure handle_char    *)
(* and try_finish over a two-state automaton.  An arm is chosen when the   *)
(* engine first calls it and is kept from then on, so that every call with *)
(* the same arguments returns the same value.                              *)

AnyChars == {"a", "U+00E9"}

AnyStates == {"S0", "S1"}

AnyTokens == {"T1", "T2"}

AnyErrors == {"E1", "E2"}

AnySteps ==
  {Discard, Continue("None")}
    \cup {Continue(s) : s \in AnyStates}
    \cup {Finish(t, b) : t \in AnyTokens, b \in BOOLEAN}
    \cup {Abort(e) : e \in AnyErrors}

---------------------------------------------------------------------------
(* trait State, as the engine sees it: the values handle_char and          *)
(* try_finish may return for the given arguments.                          *)

Default ==
  IF automaton \in {"lexer", "doc"} THEN "Start"
  ELSE IF automaton = "regex" THEN "MyState" ELSE "S0"

Chars(a) ==
  IF a = "lexer" THEN LexerChars
  ELSE IF a = "doc" THEN DocChars
  ELSE IF a = "regex" THEN RegexChars ELSE AnyChars

HandleChar(s, c) ==
  IF automaton = "lexer" THEN {LexerHandleChar(s, c)}
  ELSE IF automaton = "doc" THEN {DocHandleChar(s, c)}
  ELSE IF automaton = "regex" THEN {RegexHandleChar(s, c)}
  ELSE IF delta[<<s, c>>] # Unset THEN {delta[<<s, c>>]}
  ELSE AnySteps

TryFinish(s) ==
  IF automaton = "lexer" THEN {LexerTryFinish(s)}
  ELSE IF automaton = "doc" THEN {DocTryFinish(s)}
  ELSE IF automaton = "regex" THEN {RegexTryFinish(s)}
  ELSE IF fin[s] # "Unset" THEN {fin[s]}
  ELSE AnyTokens \cup {"None"}

Chosen(s, c, step) ==
  IF automaton = "any" THEN [delta EXCEPT ![<<s, c>>] = step] ELSE delta

ChosenFin(s, t) ==
  IF automaton = "any" THEN [fin EXCEPT ![s] = t] ELSE fin

---------------------------------------------------------------------------
(* Values returned by Lexer::next, and the records of the run. *)

None == [kind |-> "None", val |-> "None", lo |-> 0, hi |-> 0, text |-> <<>>]

Unpulled == [kind |-> "Unpulled", val |-> "None", lo |-> 0, hi |-> 0, text |-> <<>>]

Ok(t) == [kind |-> "Ok", val |-> t]

Err(e) == [kind |-> "Err", val |-> e]

Log(log, x, max) == IF Len(log) < max THEN Append(log, x) ELSE log

LogCap == Len(src) + MaxLog

CallCap == 2 * Len(src) + MaxCalls

Event(op, step, tf) ==
  [op |-> op, s |-> state, p |-> pos, st |-> start, step |-> step, tf |-> tf]

Called(c, step) ==
  /\ delta' = Chosen(state, c, step)
  /\ calls' = Log(calls, [s |-> state, c |-> c, p |-> pos, first |-> first,
                          step |-> step], CallCap)
  /\ first' = FALSE
  /\ ev' = Event(step.kind, step, "None")

---------------------------------------------------------------------------
(* impl Lexer. *)

(* current_index counting characters in place of bytes. *)
CurrentIndex_CharCount(p) == IF p < Len(src) THEN p ELSE SrcLen

CurrentIndex(p) == IF p < Len(src) THEN CharIndices[p + 1][1] ELSE SrcLen

CurrentChar(p) == IF p < Len(src) THEN CharIndices[p + 1][2] ELSE "None"

Advance(p) == IF p < Len(src) THEN p + 1 ELSE p

SliceOk(lo, hi) ==
  /\ lo <= hi
  /\ hi <= SrcLen
  /\ IsCharBoundary(Bytes(src), lo)
  /\ IsCharBoundary(Bytes(src), hi)

Slice(lo, hi) == SubSeq(Bytes(src), lo + 1, hi)

(* discard_lexeme reading the index before it advances. *)
DiscardLexeme_StartBeforeAdvance ==
  /\ state' = Default
  /\ pos' = Advance(pos)
  /\ start' = CurrentIndex(pos)
  /\ spans' = Log(spans, [kind |-> "discard", lo |-> start,
                          hi |-> CurrentIndex(pos')], LogCap)

(* discard_lexeme without the reset of the state. *)
DiscardLexeme_KeepState ==
  /\ state' = state
  /\ pos' = Advance(pos)
  /\ start' = CurrentIndex(pos')
  /\ spans' = Log(spans, [kind |-> "discard", lo |-> start,
                          hi |-> CurrentIndex(pos')], LogCap)

(* discard_lexeme setting the start one byte past the cursor. *)
DiscardLexeme_StartPastCursor ==
  /\ state' = Default
  /\ pos' = Advance(pos)
  /\ start' = CurrentIndex(pos') + 1
  /\ spans' = Log(spans, [kind |-> "discard", lo |-> start,
                          hi |-> CurrentIndex(pos')], LogCap)

DiscardLexeme ==
  /\ state' = Default
  /\ pos' = Advance(pos)
  /\ start' = CurrentIndex(pos')
  /\ spans' = Log(spans, [kind |-> "discard", lo |-> start,
                          hi |-> CurrentIndex(pos')], LogCap)

(* finish_token with the cursor moved to p and the state set to s. *)
FinishTokenVariant(token, p, s) ==
  LET end == CurrentIndex(p)
  IN  /\ state' = s
      /\ pos' = p
      /\ start' = end
      /\ IF SliceOk(start, end)
         THEN /\ ret' = [kind |-> token.kind, val |-> token.val, lo |-> start,
                         hi |-> end, text |-> Slice(start, end)]
              /\ out' = Log(out, [by |-> ev'.op, r |-> ret'], LogCap)
              /\ spans' = Log(spans, [kind |-> "lexeme", lo |-> start,
                                      hi |-> end], LogCap)
              /\ pc' = "idle"
         ELSE /\ pc' = "panic"
              /\ UNCHANGED <<ret, out, spans>>

(* finish_token ignoring consume_current: the character is always taken. *)
FinishToken_AlwaysConsume(token, consume_current) ==
  FinishTokenVariant(token, Advance(pos), Default)

(* finish_token ignoring consume_current: the character is never taken. *)
FinishToken_NeverConsume(token, consume_current) ==
  FinishTokenVariant(token, pos, Default)

(* finish_token without the reset of the state. *)
FinishToken_KeepState(token, consume_current) ==
  FinishTokenVariant(token, IF consume_current THEN Advance(pos) ELSE pos, state)

FinishToken(token, consume_current) ==
  LET p   == IF consume_current THEN Advance(pos) ELSE pos
      end == CurrentIndex(p)
  IN  /\ state' = Default
      /\ pos' = p
      /\ start' = end
      /\ IF SliceOk(start, end)
         THEN /\ ret' = [kind |-> token.kind, val |-> token.val, lo |-> start,
                         hi |-> end, text |-> Slice(start, end)]
              /\ out' = Log(out, [by |-> ev'.op, r |-> ret'], LogCap)
              /\ spans' = Log(spans, [kind |-> "lexeme", lo |-> start,
                                      hi |-> end], LogCap)
              /\ pc' = "idle"
         ELSE /\ pc' = "panic"
              /\ UNCHANGED <<ret, out, spans>>

---------------------------------------------------------------------------
(* impl Iterator for Lexer: next, one action per path through one          *)
(* iteration of its loop.                                                  *)

PullLatched ==
  /\ pc = "idle"
  /\ done
  /\ ret' = None
  /\ ev' = Event("latched", Unset, "None")
  /\ out' = Log(out, [by |-> "latched", r |-> None], LogCap)
  /\ UNCHANGED <<calcvars, symvars, other, automaton, src, delta, fin, pos, start, state, done, pc,
                 first, spans, calls>>

PullBegin ==
  /\ pc = "idle"
  /\ ~done
  /\ pc' = "loop"
  /\ first' = TRUE
  /\ ev' = Event("begin", Unset, "None")
  /\ UNCHANGED <<calcvars, symvars, other, automaton, src, delta, fin, pos, start, state, done, ret,
                 out, spans, calls>>

StepDiscard ==
  /\ pc = "loop"
  /\ CurrentChar(pos) # "None"
  /\ \E step \in HandleChar(state, CurrentChar(pos)) :
       /\ step.kind = "Discard"
       /\ Called(CurrentChar(pos), step)
       /\ DiscardLexeme
  /\ UNCHANGED <<calcvars, symvars, other, automaton, src, fin, done, pc, ret, out>>

(* Continue(None) that also moves the lexeme start to the cursor. *)
StepContinue_MovesStart ==
  /\ pc = "loop"
  /\ CurrentChar(pos) # "None"
  /\ \E step \in HandleChar(state, CurrentChar(pos)) :
       /\ step.kind = "Continue"
       /\ step.arg = "None"
       /\ Called(CurrentChar(pos), step)
       /\ pos' = Advance(pos)
       /\ start' = CurrentIndex(pos')
  /\ UNCHANGED <<calcvars, symvars, other, automaton, src, fin, state, done, pc, ret, out, spans>>

StepContinue ==
  /\ pc = "loop"
  /\ CurrentChar(pos) # "None"
  /\ \E step \in HandleChar(state, CurrentChar(pos)) :
       /\ step.kind = "Continue"
       /\ step.arg = "None"
       /\ Called(CurrentChar(pos), step)
       /\ pos' = Advance(pos)
  /\ UNCHANGED <<calcvars, symvars, other, automaton, src, fin, start, state, done, pc, ret, out, spans>>

(* Continue(Some(state)) that does not take the character. *)
StepContinueWith_NoAdvance ==
  /\ pc = "loop"
  /\ CurrentChar(pos) # "None"
  /\ \E step \in HandleChar(state, CurrentChar(pos)) :
       /\ step.kind = "Continue"
       /\ step.arg # "None"
       /\ Called(CurrentChar(pos), step)
       /\ state' = step.arg
       /\ pos' = pos
  /\ UNCHANGED <<calcvars, symvars, other, automaton, src, fin, start, done, pc, ret, out, spans>>

StepContinueWith ==
  /\ pc = "loop"
  /\ CurrentChar(pos) # "None"
  /\ \E step \in HandleChar(state, CurrentChar(pos)) :
       /\ step.kind = "Continue"
       /\ step.arg # "None"
       /\ Called(CurrentChar(pos), step)
       /\ state' = step.arg
       /\ pos' = Advance(pos)
  /\ UNCHANGED <<calcvars, symvars, other, automaton, src, fin, start, done, pc, ret, out, spans>>

(* Finish with the meaning of consume_current inverted. *)
StepFinish_FlagInverted ==
  /\ pc = "loop"
  /\ CurrentChar(pos) # "None"
  /\ \E step \in HandleChar(state, CurrentChar(pos)) :
       /\ step.kind = "Finish"
       /\ Called(CurrentChar(pos), step)
       /\ FinishToken(Ok(step.arg), ~step.flag)
  /\ UNCHANGED <<calcvars, symvars, other, automaton, src, fin, done>>

StepFinish ==
  /\ pc = "loop"
  /\ CurrentChar(pos) # "None"
  /\ \E step \in HandleChar(state, CurrentChar(pos)) :
       /\ step.kind = "Finish"
       /\ Called(CurrentChar(pos), step)
       /\ FinishToken(Ok(step.arg), step.flag)
  /\ UNCHANGED <<calcvars, symvars, other, automaton, src, fin, done>>

(* The Abort arm without self.done = true. *)
StepAbort_NoLatch ==
  /\ pc = "loop"
  /\ CurrentChar(pos) # "None"
  /\ \E step \in HandleChar(state, CurrentChar(pos)) :
       /\ step.kind = "Abort"
       /\ Called(CurrentChar(pos), step)
       /\ FinishToken(Err(step.arg), TRUE)
  /\ UNCHANGED <<calcvars, symvars, other, automaton, src, fin, done>>

(* The Abort arm leaving the offending character unconsumed. *)
StepAbort_NoConsume ==
  /\ pc = "loop"
  /\ CurrentChar(pos) # "None"
  /\ \E step \in HandleChar(state, CurrentChar(pos)) :
       /\ step.kind = "Abort"
       /\ Called(CurrentChar(pos), step)
       /\ done' = TRUE
       /\ FinishToken(Err(step.arg), FALSE)
  /\ UNCHANGED <<calcvars, symvars, other, automaton, src, fin>>

StepAbort ==
  /\ pc = "loop"
  /\ CurrentChar(pos) # "None"
  /\ \E step \in HandleChar(state, CurrentChar(pos)) :
       /\ step.kind = "Abort"
       /\ Called(CurrentChar(pos), step)
       /\ done' = TRUE
       /\ FinishToken(Err(step.arg), TRUE)
  /\ UNCHANGED <<calcvars, symvars, other, automaton, src, fin>>

(* The end of input without self.done = true. *)
EndOfInput_NoLatch ==
  /\ pc = "loop"
  /\ CurrentChar(pos) = "None"
  /\ \E t \in TryFinish(state) :
       /\ fin' = ChosenFin(state, t)
       /\ ev' = Event("eof", Unset, t)
       /\ IF t # "None"
          THEN FinishToken(Ok(t), FALSE)
          ELSE /\ ret' = None
               /\ out' = Log(out, [by |-> "eof", r |-> None], LogCap)
               /\ pc' = "idle"
               /\ UNCHANGED <<pos, start, state, spans>>
  /\ UNCHANGED <<calcvars, symvars, other, automaton, src, delta, first, calls, done>>

(* The end of input reporting a partial lexeme as an error. *)
EndOfInput_ErrOnNone ==
  /\ pc = "loop"
  /\ CurrentChar(pos) = "None"
  /\ done' = TRUE
  /\ \E t \in TryFinish(state) :
       /\ fin' = ChosenFin(state, t)
       /\ ev' = Event("eof", Unset, t)
       /\ IF t # "None"
          THEN FinishToken(Ok(t), FALSE)
          ELSE FinishToken(Err("Eof"), FALSE)
  /\ UNCHANGED <<calcvars, symvars, other, automaton, src, delta, first, calls>>

(* The end of input calling try_finish only with text accumulated. *)
EndOfInput_OnlyMidLexeme ==
  /\ pc = "loop"
  /\ CurrentChar(pos) = "None"
  /\ done' = TRUE
  /\ IF start < CurrentIndex(pos)
     THEN \E t \in TryFinish(state) :
            /\ fin' = ChosenFin(state, t)
            /\ ev' = Event("eof", Unset, t)
            /\ IF t # "None"
               THEN FinishToken(Ok(t), FALSE)
               ELSE /\ ret' = None
                    /\ out' = Log(out, [by |-> "eof", r |-> None], LogCap)
                    /\ pc' = "idle"
                    /\ UNCHANGED <<pos, start, state, spans>>
     ELSE /\ ev' = Event("eof", Unset, "None")
          /\ ret' = None
          /\ out' = Log(out, [by |-> "eof", r |-> None], LogCap)
          /\ pc' = "idle"
          /\ UNCHANGED <<fin, pos, start, state, spans>>
  /\ UNCHANGED <<calcvars, symvars, other, automaton, src, delta, first, calls>>

EndOfInput ==
  /\ pc = "loop"
  /\ CurrentChar(pos) = "None"
  /\ done' = TRUE
  /\ \E t \in TryFinish(state) :
       /\ fin' = ChosenFin(state, t)
       /\ ev' = Event("eof", Unset, t)
       /\ IF t # "None"
          THEN FinishToken(Ok(t), FALSE)
          ELSE /\ ret' = None
               /\ out' = Log(out, [by |-> "eof", r |-> None], LogCap)
               /\ pc' = "idle"
               /\ UNCHANGED <<pos, start, state, spans>>
  /\ UNCHANGED <<calcvars, symvars, other, automaton, src, delta, first, calls>>

---------------------------------------------------------------------------
(* lex: a fresh engine over a source text, and the specification. *)

(* Well-formed numbers: digits, an optional fraction, an optional exponent *)
(* with an optional sign.                                                  *)
Numbers ==
  {<<"1">>, <<"1", "1">>, <<"1", ".", "1">>, <<"1", "E", "1">>,
   <<"1", "E", "+", "1", "1">>, <<"1", ".", "1", "1", "E", "-", "1">>}

(* Up to n numbers with whitespace between them, ending with a number. *)
RECURSIVE NumberLists(_)
NumberLists(n) ==
  IF n = 1 THEN Numbers
  ELSE LET shorter == NumberLists(n - 1)
       IN  shorter \cup {s \o <<" ">> \o m : s \in shorter, m \in Numbers}

(* The same, with or without whitespace before and after. *)
NumberSources ==
  {lead \o s \o trail :
     lead \in {<<>>, <<" ">>}, s \in NumberLists(MaxNumbers),
     trail \in {<<>>, <<" ", "\n">>}}

(* Sources with C-style comments. *)
CommentSources ==
  {<<"/", "*", "*", "/">>,
   <<"/", "*", "*", "/", "1">>,
   <<"/", "*", "x", "*", "/", "1">>,
   <<"/", "*", "*", "*", "/">>,
   <<"/", "*", "*", "*", "/", "1">>,
   <<"/", "*", "x", "*", "*", "/", "1">>,
   <<"1", "/", "*", "*", "*", "*", "/", "x">>,
   <<"/", "*", "/", "*", "/", "1">>,
   <<"/", "/", "\n">>,
   <<"/", "/", "x", "\n", "1">>,
   <<"/", "/", "*", "/", "\n", "x">>,
   <<"x", "/", "/", "1", " ", "\n", "\n", "1">>,
   <<"/", "/", "x">>}

(* Regular expressions given to nfa2dot, newlines included. *)
RegexSources ==
  {<<"(", "\n", "U+00E9">>,
   <<"a", "|", "a", "*">>,
   <<"(", "a", "|", "U+00E9", ")", "*", "\n">>,
   <<"\n", "a", "\n", "\n", "a">>}

Sources(a) ==
  SeqsUpTo(Chars(a), IF a = "regex" THEN MaxRegexLen ELSE MaxLen)
    \cup (IF a = "regex" THEN RegexSources ELSE {})
    \cup (IF a \in {"lexer", "doc"} THEN NumberSources ELSE {})
    \cup (IF a = "lexer" THEN CommentSources ELSE {})

(* Texts given to the symbol table of the calculator. *)
SymTexts == {"div", "mod", "a", "b"}

(* Option<usize>::None. *)
NoIndex == 0 - 1

Fresh ==
  [pos |-> 0, start |-> 0, state |-> Default, done |-> FALSE, pc |-> "idle",
   first |-> FALSE, ret |-> Unpulled,
   ev |-> [op |-> "new", s |-> Default, p |-> 0, st |-> 0, step |-> Unset,
           tf |-> "None"],
   out |-> <<>>, spans |-> <<>>, calls |-> <<>>]

LexInit ==
  /\ automaton \in {"any", "lexer", "doc", "regex"}
  /\ src \in Sources(automaton)
  /\ other = Fresh
  /\ delta = [k \in AnyStates \X AnyChars |-> Unset]
  /\ fin = [s \in AnyStates |-> "Unset"]
  /\ pos = 0
  /\ start = 0
  /\ state = Default
  /\ done = FALSE
  /\ pc = "idle"
  /\ first = FALSE
  /\ ret = Unpulled
  /\ ev = Event("new", Unset, "None")
  /\ out = <<>>
  /\ spans = <<>>
  /\ calls = <<>>

Init ==
  /\ LexInit
  /\ symbols = <<>>
  /\ symev = [op |-> "default", sym |-> "None", index |-> NoIndex,
              result |-> NoIndex, before |-> <<>>]
  /\ handed = [t \in SymTexts |-> NoIndex]
  /\ firsts = <<>>
  /\ input = <<>>
  /\ iter = 0
  /\ line = 1
  /\ items = <<>>

Next ==
  \/ PullLatched
  \/ PullBegin
  \/ StepDiscard
  \/ StepContinue
  \/ StepContinueWith
  \/ StepFinish
  \/ StepAbort
  \/ EndOfInput

Spec == Init /\ [][Next]_vars

---------------------------------------------------------------------------
(* Two engines over the same source and the same State implementation: the *)
(* consumer turns from one Lexer to the other between two pulls.  Each     *)
(* Lexer owns its fields; src is borrowed immutably and handle_char and    *)
(* try_finish are pure.                                                    *)

(* A done flag shared by the two engines instead of owned by each. *)
Switch_SharedDone ==
  /\ pc = "idle"
  /\ other' = [pos |-> pos, start |-> start, state |-> state, done |-> done,
               pc |-> pc, first |-> first, ret |-> ret, ev |-> ev,
               out |-> out, spans |-> spans, calls |-> calls]
  /\ pos' = other.pos
  /\ start' = other.start
  /\ state' = other.state
  /\ done' = done
  /\ pc' = other.pc
  /\ first' = other.first
  /\ ret' = other.ret
  /\ ev' = other.ev
  /\ out' = other.out
  /\ spans' = other.spans
  /\ calls' = other.calls
  /\ UNCHANGED <<calcvars, symvars, automaton, src, delta, fin>>

Switch ==
  /\ pc = "idle"
  /\ other' = [pos |-> pos, start |-> start, state |-> state, done |-> done,
               pc |-> pc, first |-> first, ret |-> ret, ev |-> ev,
               out |-> out, spans |-> spans, calls |-> calls]
  /\ pos' = other.pos
  /\ start' = other.start
  /\ state' = other.state
  /\ done' = other.done
  /\ pc' = other.pc
  /\ first' = other.first
  /\ ret' = other.ret
  /\ ev' = other.ev
  /\ out' = other.out
  /\ spans' = other.spans
  /\ calls' = other.calls
  /\ UNCHANGED <<calcvars, symvars, automaton, src, delta, fin>>

TwinNext ==
  \/ Next
  \/ Switch

TwinInit == Init /\ Len(src) <= MaxTwinLen

TwinSpec == TwinInit /\ [][TwinNext]_vars

FairSpec == Spec /\ WF_vars(Next)

---------------------------------------------------------------------------
(* The symbol table of the calculator (simple/src/main.rs): a shared Vec   *)
(* of texts, the index of a text being its position.                       *)

SymGet(tab, index) == IF index < Len(tab) THEN tab[index + 1] ELSE "None"

SymLookup(tab, sym) ==
  IF \E i \in 1..Len(tab) : tab[i] = sym
  THEN (CHOOSE i \in 1..Len(tab) :
          tab[i] = sym /\ \A k \in 1..(i - 1) : tab[k] # sym) - 1
  ELSE NoIndex

SymEvent(op, sym, index, result) ==
  [op |-> op, sym |-> sym, index |-> index, result |-> result,
   before |-> symbols]

Handed(sym, idx) ==
  IF handed[sym] = NoIndex /\ idx # NoIndex
  THEN [handed EXCEPT ![sym] = idx]
  ELSE handed

(* insert pushing without the lookup. *)
Insert_AlwaysPush ==
  /\ Len(symbols) < MaxSymbols
  /\ \E sym \in SymTexts :
       /\ symbols' = Append(symbols, sym)
       /\ symev' = SymEvent("insert", sym, NoIndex, Len(symbols') - 1)
       /\ handed' = Handed(sym, Len(symbols') - 1)
       /\ firsts' = IF \E i \in 1..Len(firsts) : firsts[i] = sym
                    THEN firsts ELSE Append(firsts, sym)
  /\ UNCHANGED <<lexvars, calcvars>>

Insert ==
  /\ \E sym \in SymTexts :
       LET idx == SymLookup(symbols, sym)
       IN  /\ IF idx # NoIndex
              THEN /\ symbols' = symbols
                   /\ symev' = SymEvent("insert", sym, NoIndex, idx)
                   /\ handed' = Handed(sym, idx)
              ELSE /\ Len(symbols) < MaxSymbols
                   /\ symbols' = Append(symbols, sym)
                   /\ symev' = SymEvent("insert", sym, NoIndex, Len(symbols') - 1)
                   /\ handed' = Handed(sym, Len(symbols') - 1)
           /\ firsts' = IF \E i \in 1..Len(firsts) : firsts[i] = sym
                        THEN firsts ELSE Append(firsts, sym)
  /\ UNCHANGED <<lexvars, calcvars>>

Lookup ==
  /\ \E sym \in SymTexts :
       /\ symev' = SymEvent("lookup", sym, NoIndex, SymLookup(symbols, sym))
       /\ handed' = Handed(sym, SymLookup(symbols, sym))
  /\ UNCHANGED <<lexvars, calcvars, symbols, firsts>>

Get ==
  /\ \E index \in 0..MaxSymbols :
       symev' = SymEvent("get", "None", index, SymGet(symbols, index))
  /\ UNCHANGED <<lexvars, calcvars, symbols, handed, firsts>>

SymInit == Init /\ automaton = "lexer" /\ src = <<>>

SymNext ==
  \/ Insert
  \/ Lookup
  \/ Get

SymSpec == SymInit /\ [][SymNext]_vars

---------------------------------------------------------------------------
(* The hand-written Lexer of the calculator (simple/src/main.rs): one      *)
(* action per call of next.                                                *)

CalcChars == {"1", "2", "a", "+", " ", "\n", "@"}

CalcSources == SeqsUpTo(CalcChars, MaxCalcLen)

IsDecimal(c) == c \in {"1", "2"}

DigitValue(c) == IF c = "1" THEN 1 ELSE 2

IsAlphabetic(c) == c \in {"a"}

IsAlphanumeric(c) == IsAlphabetic(c) \/ IsDecimal(c)

(* What one call of next leaves: the value returned, the characters taken, *)
(* the line, and the identifier to intern if there is one.                 *)
Scanned(kind, val, ch, i, ln, ident) ==
  [kind |-> kind, val |-> val, ch |-> ch, iter |-> i, line |-> ln,
   ident |-> ident]

(* The loop 'num, with i characters taken. *)
RECURSIVE NumLoop(_, _, _)
NumLoop(num, i, ln) ==
  IF i >= Len(input) THEN Scanned("None", 0, "None", i, ln, <<>>)
  ELSE IF IsDecimal(input[i + 1])
  THEN NumLoop(num * 10 + DigitValue(input[i + 1]), i + 1, ln)
  ELSE Scanned("Num", num, "None", i, ln, <<>>)

(* The loop 'ident, with i characters taken. *)
RECURSIVE IdentLoop(_, _, _)
IdentLoop(ident, i, ln) ==
  IF i >= Len(input) THEN Scanned("None", 0, "None", i, ln, <<>>)
  ELSE IF IsAlphanumeric(input[i + 1])
  THEN IdentLoop(Append(ident, input[i + 1]), i + 1, ln)
  ELSE Scanned("Sym", 0, "None", i, ln, ident)

(* The while loop of next, with i characters taken. *)
RECURSIVE CalcScan(_, _)
CalcScan(i, ln) ==
  IF i >= Len(input) THEN Scanned("None", 0, "None", i, ln, <<>>)
  ELSE LET c == input[i + 1]
       IN  CASE c \in {" ", "\t"} -> CalcScan(i + 1, ln)
             [] c = "\n" -> CalcScan(i + 1, ln + 1)
             [] IsDecimal(c) -> NumLoop(DigitValue(c), i + 1, ln)
             [] c = "+" -> Scanned("Plus", 0, "None", i + 1, ln, <<>>)
             [] IsAlphabetic(c) -> IdentLoop(<<c>>, i + 1, ln)
             [] OTHER -> Scanned("Err", 0, c, i + 1, ln, <<>>)

(* SymTable::insert on a table value: the table it leaves. *)
InsertInto(tab, sym) ==
  IF SymLookup(tab, sym) # NoIndex THEN tab ELSE Append(tab, sym)

ItemCap == Len(input) + MaxLog

CalcLexerNext ==
  /\ Len(items) < ItemCap
  /\ LET r == CalcScan(iter, line)
     IN  /\ iter' = r.iter
         /\ line' = r.line
         /\ symbols' = (IF r.kind = "Sym" THEN InsertInto(symbols, r.ident)
                        ELSE symbols)
         /\ items' = Append(items,
              [kind |-> r.kind,
               val |-> (IF r.kind = "Sym" THEN SymLookup(symbols', r.ident)
                        ELSE r.val),
               ch |-> r.ch,
               line |-> r.line])
  /\ UNCHANGED <<lexvars, symev, handed, firsts, input>>

(* main: the table holds "div" and "mod" when the Lexer is made. *)
CalcInit ==
  /\ LexInit
  /\ automaton = "lexer"
  /\ src = <<>>
  /\ symbols = <<<<"d", "i", "v">>, <<"m", "o", "d">>>>
  /\ symev = [op |-> "default", sym |-> "None", index |-> NoIndex,
              result |-> NoIndex, before |-> <<>>]
  /\ handed = [t \in SymTexts |-> NoIndex]
  /\ firsts = <<>>
  /\ input \in CalcSources
  /\ iter = 0
  /\ line = 1
  /\ items = <<>>

CalcNext ==
  \/ CalcLexerNext

CalcSpec == CalcInit /\ [][CalcNext]_vars

---------------------------------------------------------------------------
(* Vocabulary of the properties. *)

(* Byte offset of the character after the first k characters. *)
ByteOffset(k) == Len(Bytes(SubSeq(src, 1, k)))

(* The bytes of the characters i+1 .. j of the source. *)
TextOfChars(i, j) == Bytes(SubSeq(src, i + 1, j))

(* r is a result whose lexeme is the bytes [lo, hi) of the source, which    *)
(* are the characters k+1 .. j for the k with byte offset lo.              *)
IsLexeme(r, lo, j) ==
  /\ r.lo = lo
  /\ r.hi = ByteOffset(j)
  /\ \E k \in 0..j : ByteOffset(k) = lo /\ r.text = TextOfChars(k, j)

LastOut == out[Len(out)]

Returned(i) == out[i].r.kind \in {"Ok", "Err"}

(* C1: Finish(token, false) on the lookahead c ends the pull with          *)
(* Ok(token), the lexeme being the text from the lexeme start up to but    *)
(* excluding c; the cursor stays on c, and the next handle_char call is    *)
(* the first of the next pull, made on the default state with c again.     *)
C1_FinishKeepsLookahead ==
  /\ (ev.op = "Finish" /\ ~ev.step.flag) =>
       /\ pc = "idle"
       /\ ret.kind = "Ok"
       /\ ret.val = ev.step.arg
       /\ IsLexeme(ret, ev.st, ev.p)
       /\ pos = ev.p
       /\ (Len(out) < LogCap => LastOut.r = ret)
  /\ \A i \in 1..(Len(calls) - 1) :
       (calls[i].step.kind = "Finish" /\ ~calls[i].step.flag) =>
         /\ calls[i + 1].first
         /\ calls[i + 1].s = Default
         /\ calls[i + 1].p = calls[i].p
         /\ calls[i + 1].c = calls[i].c

C1_Witness ==
  /\ Len(calls) >= 3
  /\ calls[Len(calls) - 1].step.kind = "Finish"
  /\ ~calls[Len(calls) - 1].step.flag
  /\ calls[Len(calls) - 1].s # Default
  /\ ret.kind = "Ok"
  /\ ret.lo < ret.hi

(* C2: once a pull has returned an Err, every later pull returns nothing,  *)
(* also with characters left in the source: an Err is the last result.     *)
C2_AbortLatches ==
  \A i \in 1..Len(out) :
    out[i].r.kind = "Err" =>
      /\ done
      /\ \A j \in (i + 1)..Len(out) : out[j].r = None
      /\ \A j \in 1..(i - 1) : out[j].r.kind = "Ok"

C2_Witness ==
  /\ Len(out) >= 4
  /\ out[2].r.kind = "Err"
  /\ pos < Len(src)

(* C3: the ranges of the lexemes returned and of the text dropped by       *)
(* Discard follow one another from offset 0 without gap or overlap and end *)
(* at the lexeme start; lexeme starts never decrease.                      *)
C3_SpansPartitionPrefix ==
  /\ \A i \in 1..Len(spans) :
       /\ spans[i].lo <= spans[i].hi
       /\ spans[i].lo = (IF i = 1 THEN 0 ELSE spans[i - 1].hi)
  /\ start = (IF spans = <<>> THEN 0 ELSE spans[Len(spans)].hi)
  /\ \A i \in 1..Len(out) : \A j \in (i + 1)..Len(out) :
       (Returned(i) /\ Returned(j)) => out[i].r.lo <= out[j].r.lo

C3_Witness ==
  /\ Len(spans) = 3
  /\ spans[1].kind = "lexeme"
  /\ spans[2].kind = "discard"
  /\ spans[3].kind = "lexeme"
  /\ \A i \in 1..3 : spans[i].lo < spans[i].hi

(* C4: when the input ends and try_finish gives a token, the pull returns  *)
(* exactly one Ok with that token, whose lexeme is the text from the       *)
(* lexeme start to the end of the source; every later pull returns         *)
(* nothing.                                                                *)
C4_EndOfInputToken ==
  /\ (ev.op = "eof" /\ ev.tf # "None") =>
       /\ pc = "idle"
       /\ done
       /\ ret.kind = "Ok"
       /\ ret.val = ev.tf
       /\ IsLexeme(ret, ev.st, Len(src))
       /\ ret.hi = SrcLen
       /\ (Len(out) < LogCap => LastOut = [by |-> "eof", r |-> ret])
  /\ \A i \in 1..Len(out) :
       out[i].by = "eof" =>
         \A j \in (i + 1)..Len(out) : out[j] = [by |-> "latched", r |-> None]

C4_Witness ==
  /\ ev.op = "latched"
  /\ Len(out) >= 3
  /\ out[Len(out) - 2].by = "eof"
  /\ out[Len(out) - 2].r.kind = "Ok"
  /\ out[Len(out) - 2].r.lo < out[Len(out) - 2].r.hi
  /\ out[Len(out) - 2].r.lo > 0

(* C5: when the input ends and try_finish gives nothing, the pull returns  *)
(* nothing and latches the engine: no Ok and no Err is ever returned for   *)
(* the text gathered since the lexeme start, as for a trailing digits-E    *)
(* under the automaton of lexer.rs.                                        *)
C5_EndOfInputSilent ==
  /\ (ev.op = "eof" /\ ev.tf = "None") =>
       /\ pc = "idle"
       /\ done
       /\ ret = None
       /\ start = ev.st
       /\ (Len(out) < LogCap => LastOut = [by |-> "eof", r |-> None])
  /\ (done /\ pc = "idle" /\ start < SrcLen /\ \A i \in 1..Len(out) : out[i].r.kind # "Err") =>
       \A i \in 1..Len(out) : Returned(i) => out[i].r.hi <= start
  /\ (automaton = "lexer" /\ ev.op = "eof" /\ ev.s = "FloatE") => ret = None

C5_Witness ==
  /\ automaton = "lexer"
  /\ src = <<"1", "1", "E">>
  /\ ev.op = "latched"
  /\ state = "FloatE"
  /\ start = 0
  /\ Len(out) = 2
  /\ out[1] = [by |-> "eof", r |-> None]

(* C6: Finish(token, true) on the lookahead c ends the pull with           *)
(* Ok(token), the lexeme being the text from the lexeme start through all  *)
(* the bytes of c; the next pull starts on the character after c in the    *)
(* default state.                                                          *)
C6_FinishConsumesLookahead ==
  /\ (ev.op = "Finish" /\ ev.step.flag) =>
       /\ pc = "idle"
       /\ ret.kind = "Ok"
       /\ ret.val = ev.step.arg
       /\ IsLexeme(ret, ev.st, ev.p + 1)
       /\ ret.hi = CharIndices[ev.p + 1][1] + Len(Utf8(src[ev.p + 1]))
       /\ pos = ev.p + 1
       /\ state = Default
       /\ (Len(out) < LogCap => LastOut.r = ret)
  /\ \A i \in 1..(Len(calls) - 1) :
       (calls[i].step.kind = "Finish" /\ calls[i].step.flag) =>
         /\ calls[i + 1].first
         /\ calls[i + 1].s = Default
         /\ calls[i + 1].p = calls[i].p + 1

C6_Witness ==
  /\ Len(calls) >= 3
  /\ calls[Len(calls) - 1].step.kind = "Finish"
  /\ calls[Len(calls) - 1].step.flag
  /\ calls[Len(calls) - 1].c = "U+00E9"
  /\ calls[Len(calls) - 1].s # Default
  /\ Len(out) = 1
  /\ out[1].r.hi - out[1].r.lo >= 3

(* C7: Discard on the lookahead c returns nothing: the text from the       *)
(* lexeme start through c is dropped, the lexeme start moves to the offset *)
(* just after c, the state is reset to the default state and the same pull *)
(* goes on with the next character.                                        *)
C7_DiscardDropsAndContinues ==
  /\ ev.op = "Discard" =>
       /\ pc = "loop"
       /\ ~first
       /\ state = Default
       /\ pos = ev.p + 1
       /\ start = CharIndices[ev.p + 1][1] + Len(Utf8(src[ev.p + 1]))
       /\ (Len(spans) < LogCap =>
             spans[Len(spans)] = [kind |-> "discard", lo |-> ev.st, hi |-> start])
       /\ \A i \in 1..Len(out) : Returned(i) => out[i].r.hi <= ev.st
  /\ \A i \in 1..Len(spans) : \A j \in 1..Len(out) :
       (spans[i].kind = "discard" /\ Returned(j)) =>
          (out[j].r.hi <= spans[i].lo \/ spans[i].hi <= out[j].r.lo)
  /\ \A i \in 1..(Len(calls) - 1) :
       calls[i].step.kind = "Discard" =>
         /\ ~calls[i + 1].first
         /\ calls[i + 1].s = Default
         /\ calls[i + 1].p = calls[i].p + 1

C7_Witness ==
  /\ Len(calls) >= 3
  /\ calls[Len(calls) - 1].step.kind = "Discard"
  /\ calls[Len(calls) - 1].s # Default
  /\ calls[Len(calls) - 1].c = "U+00E9"
  /\ Len(spans) = 1
  /\ spans[1].hi - spans[1].lo >= 3
  /\ ev.op # "Discard"

(* C9: the state is the default state at every lexeme boundary.  A fresh   *)
(* engine and the engine after a Discard, a Finish or an Abort have the    *)
(* default state and a lexeme start equal to the cursor offset; so every   *)
(* pull of an engine that is not latched begins in the default state with  *)
(* nothing accumulated, and the cursor is never beyond the character       *)
(* after the one that ended the returned token.                            *)
C9_DefaultStateAtBoundary ==
  /\ ev.op \in {"new", "Discard", "Finish", "Abort", "begin"} =>
       /\ state = Default
       /\ start = CurrentIndex(pos)
  /\ (pc = "idle" /\ ~done) =>
       /\ state = Default
       /\ start = CurrentIndex(pos)
  /\ ev.op \in {"Finish", "Abort"} =>
       /\ pos >= ev.p
       /\ pos <= ev.p + 1
       /\ ret.hi = CurrentIndex(pos)
  /\ \A i \in 1..Len(calls) : calls[i].first => calls[i].s = Default

C9_Witness ==
  /\ ev.op = "begin"
  /\ Len(calls) >= 2
  /\ calls[Len(calls)].step.kind = "Finish"
  /\ calls[Len(calls)].s # Default
  /\ pos > 0
  /\ pos < Len(src)

(* C10: Abort(e) on the lookahead c ends the pull with exactly one result, *)
(* Err(e); c is consumed and the lexeme runs from the lexeme start, with   *)
(* the characters gathered by earlier Continue steps, through c.           *)
C10_AbortResult ==
  /\ ev.op = "Abort" =>
       /\ pc = "idle"
       /\ ret.kind = "Err"
       /\ ret.val = ev.step.arg
       /\ IsLexeme(ret, ev.st, ev.p + 1)
       /\ ret.hi = CharIndices[ev.p + 1][1] + Len(Utf8(src[ev.p + 1]))
       /\ pos = ev.p + 1
       /\ (Len(out) < LogCap => LastOut = [by |-> "Abort", r |-> ret])
  /\ Cardinality({i \in 1..Len(out) : out[i].by = "Abort"}) <= 1
  /\ \A i \in 1..Len(out) : out[i].by = "Abort" <=> out[i].r.kind = "Err"
  /\ (automaton = "lexer" /\ ev.op = "Abort") => ret.val = src[ev.p + 1]

C10_Witness ==
  /\ ev.op = "Abort"
  /\ ev.s # Default
  /\ ev.p = 1
  /\ ret.lo = 0
  /\ ret.hi >= 2
  /\ pos < Len(src)

(* handle_char has returned Finish(_, false) for a call in the default     *)
(* state (for lexer.rs: has an arm that does).                             *)
StallArm ==
  \E c \in Chars(automaton) \cup {src[i] : i \in 1..Len(src)} :
    LET step == IF automaton = "lexer" THEN LexerHandleChar(Default, c)
                ELSE IF automaton = "doc" THEN DocHandleChar(Default, c)
                ELSE IF automaton = "regex" THEN RegexHandleChar(Default, c)
                ELSE delta[<<Default, c>>]
    IN  step.kind = "Finish" /\ ~step.flag

(* C8, as stated: for every source and every total handle_char, some pull  *)
(* returns no result after finitely many pulls.                            *)
C8_AlwaysFinite == <>(ret = None)

(* C8, amended: when handle_char never returns Finish(_, false) for a call *)
(* in the default state, some pull returns no result after finitely many   *)
(* pulls.                                                                  *)
C8_FiniteUnlessStall == ([]~StallArm) => <>(ret = None)

C8_Witness ==
  /\ ret = None
  /\ ~StallArm
  /\ Len(out) = 3
  /\ out[1].r.kind = "Ok"
  /\ out[2].r.kind = "Ok"
  /\ \E i \in 1..Len(calls) :
       calls[i].step.kind = "Finish" /\ ~calls[i].step.flag

(* C11, as stated: try_finish is called only with at least one character   *)
(* accumulated since the last lexeme boundary, never with the input        *)
(* exhausted at a boundary, so no token with an empty lexeme is returned   *)
(* at the end of input.                                                    *)
C11_OnlyMidLexeme ==
  /\ ev.op = "eof" => ev.st < SrcLen
  /\ \A i \in 1..Len(out) :
       (out[i].by = "eof" /\ Returned(i)) => out[i].r.lo < out[i].r.hi

(* C11, amended: try_finish is called when a pull finds the input          *)
(* exhausted, at most once, on the state the engine is in then, also at a  *)
(* lexeme boundary; the token it gives there is returned with an empty     *)
(* lexeme.  The automata of lexer.rs and of the documentation give none in *)
(* the start state.                                                        *)
C11_AtEveryEndOfInput ==
  /\ ev.op = "eof" =>
       /\ ev.p = Len(src)
       /\ ev.tf \in TryFinish(ev.s)
       /\ automaton = "any" => fin[ev.s] = ev.tf
       /\ (ev.tf # "None" /\ ev.st = SrcLen) =>
            /\ ret.kind = "Ok"
            /\ ret.val = ev.tf
            /\ ret.lo = SrcLen
            /\ ret.hi = SrcLen
            /\ ret.text = <<>>
       /\ (automaton \in {"lexer", "doc"} /\ ev.st = SrcLen) => ret = None
  /\ Cardinality({i \in 1..Len(out) : out[i].by = "eof"}) <= 1
  /\ \A i \in 1..Len(out) :
       (out[i].by = "eof" /\ Returned(i)) =>
         (out[i].r.lo = out[i].r.hi <=> out[i].r.lo = SrcLen)

C11_Witness ==
  /\ ev.op = "eof"
  /\ ev.s = Default
  /\ ev.st = SrcLen
  /\ Len(src) = 2
  /\ ev.tf # "None"
  /\ ret.kind = "Ok"
  /\ ret.lo = ret.hi
  /\ Len(out) = 2

(* The byte offsets after 0, 1, .. k characters of the source, as a        *)
(* sequence: its element i + 1 is the offset after i characters.           *)
RECURSIVE OffsetsUpTo(_)
OffsetsUpTo(k) ==
  IF k = 0 THEN <<0>>
  ELSE LET before == OffsetsUpTo(k - 1)
       IN  Append(before, before[k] + Len(Utf8(src[k])))

(* An offset strictly inside the encoding of a character of the source. *)
SplitsChar(off, x) ==
  \E k \in 1..Len(src) : off[k] < x /\ x < off[k + 1]

(* The bytes [lo, hi) of the source are a whole number of its characters: *)
(* the characters k + 1 .. j.                                              *)
WholeChars(off, lo, hi, k, j) ==
  /\ k <= j
  /\ lo = off[k + 1]
  /\ hi = off[j + 1]

(* C12: with characters of more than one byte in the source, the lexeme    *)
(* start and every lexeme end are byte offsets of a character or the       *)
(* source length; every returned lexeme is a whole number of characters,   *)
(* and no character is split between two lexemes or between a lexeme and a *)
(* discarded range.                                                        *)
C12_OffsetsOnCharBoundaries ==
  LET off == OffsetsUpTo(Len(src))
  IN  /\ pc # "panic"
      /\ ~SplitsChar(off, start)
      /\ start <= SrcLen
      /\ \A i \in 1..Len(spans) :
           /\ ~SplitsChar(off, spans[i].lo)
           /\ ~SplitsChar(off, spans[i].hi)
           /\ \E k \in 0..Len(src) :
                /\ spans[i].lo = off[k + 1]
                /\ \E j \in k..Len(src) :
                     WholeChars(off, spans[i].lo, spans[i].hi, k, j)
      /\ \A i \in 1..Len(out) :
           Returned(i) =>
             \E k \in 0..Len(src) :
               /\ out[i].r.lo = off[k + 1]
               /\ \E j \in k..Len(src) :
                    /\ WholeChars(off, out[i].r.lo, out[i].r.hi, k, j)
                    /\ out[i].r.text = TextOfChars(k, j)

C12_Witness ==
  /\ src = <<"U+00E9", "a", "U+00E9">>
  /\ Len(spans) = 3
  /\ spans[1] = [kind |-> "lexeme", lo |-> 0, hi |-> 2]
  /\ spans[2] = [kind |-> "discard", lo |-> 2, hi |-> 3]
  /\ spans[3] = [kind |-> "lexeme", lo |-> 3, hi |-> 5]
  /\ ret.kind = "Ok"
  /\ ret.text = <<195, 169>>

(* C13: once a pull has returned no result -- after clean exhaustion,      *)
(* after the token of the end of input, or after an Abort -- every step    *)
(* the engine takes is a pull that returns no result again, calls neither  *)
(* handle_char nor try_finish, and leaves the cursor, the lexeme start and *)
(* the state alone.                                                        *)
C13_NoRestart ==
  [][ret = None =>
       /\ ret' = None
       /\ ev'.op = "latched"
       /\ calls' = calls
       /\ delta' = delta
       /\ fin' = fin
       /\ done'
       /\ <<pos, start, state>>' = <<pos, start, state>>]_vars

C13_Witness ==
  /\ ev.op = "latched"
  /\ Len(out) = 4
  /\ out[1].r.kind = "Ok"
  /\ out[2].r.kind = "Err"
  /\ out[3].r = None
  /\ out[4].r = None
  /\ pos < Len(src)

(* Index of the first character at or after i that is (blank = TRUE) or is *)
(* not (blank = FALSE) whitespace; Len(src) + 1 if there is none.          *)
FirstFrom(i, blank) ==
  CHOOSE j \in i..(Len(src) + 1) :
    /\ j = Len(src) + 1 \/ IsWhitespace(src[j]) = blank
    /\ \A k \in i..(j - 1) : IsWhitespace(src[k]) # blank

(* The maximal runs of non-whitespace characters of the source from        *)
(* character i on, each as the characters lo+1 .. hi.                      *)
RECURSIVE WordsFrom(_)
WordsFrom(i) ==
  LET b == FirstFrom(i, FALSE)
      e == FirstFrom(b, TRUE)
  IN  IF b > Len(src) THEN <<>>
      ELSE <<[lo |-> b - 1, hi |-> e - 1]>> \o WordsFrom(e)

NumToken == IF automaton = "doc" THEN "Unit" ELSE "Num"

(* C14: for the automaton of the documentation example and the number      *)
(* rules of lexer.rs, a source of well-formed numbers separated by         *)
(* whitespace yields one Ok token per number, in order, with the whole     *)
(* number as lexeme, and nothing for the whitespace; a last number that    *)
(* ends the source is produced at the end of input.                        *)
C14_MaximalMunch ==
  (automaton \in {"lexer", "doc"} /\ src \in NumberSources) =>
    LET w == WordsFrom(1)
    IN  /\ pc # "panic"
        /\ \A i \in 1..Len(out) :
             IF i <= Len(w)
             THEN /\ out[i].r.kind = "Ok"
                  /\ out[i].r.val = NumToken
                  /\ out[i].r.lo = ByteOffset(w[i].lo)
                  /\ out[i].r.hi = ByteOffset(w[i].hi)
                  /\ out[i].r.text = TextOfChars(w[i].lo, w[i].hi)
                  /\ out[i].by = IF w[i].hi = Len(src) THEN "eof" ELSE "Finish"
             ELSE out[i].r = None
        /\ ret = None => Len(out) > Len(w)

C14_Witness ==
  /\ automaton = "doc"
  /\ src \in NumberSources
  /\ Len(WordsFrom(1)) = 2
  /\ Len(out) = 3
  /\ out[1].r.text = Bytes(<<"1", "E", "+", "1", "1">>)
  /\ out[2].r.text = Bytes(<<"1", ".", "1", "1", "E", "-", "1">>)
  /\ out[2].by = "eof"
  /\ ret = None

(* C15: in lexer.rs, '<' followed by '=' yields LessEqual with lexeme "<=" *)
(* and '<' followed by '>' yields NotEqual with lexeme "<>", the second    *)
(* character being consumed; '<' followed by another character d yields    *)
(* Less with lexeme "<", and d is left to begin what follows: the lexeme   *)
(* start is at d and the next call is made on the start state with d.  The *)
(* source "<=x" yields (LessEqual, "<="), then a token whose lexeme starts *)
(* at 'x', then no more result.                                            *)
C15_RelopLookahead ==
  automaton = "lexer" =>
    /\ (ev.op = "Finish" /\ ev.s = "Lt") =>
         LET d == src[ev.p + 1]
         IN  /\ ev.p >= 1
             /\ src[ev.p] = "<"
             /\ ev.st = ByteOffset(ev.p - 1)
             /\ ret.kind = "Ok"
             /\ ret.lo = ev.st
             /\ ret.val = (IF d = "=" THEN "LessEqual"
                           ELSE IF d = ">" THEN "NotEqual" ELSE "Less")
             /\ ret.text = (IF d \in {"=", ">"} THEN Bytes(<<"<", d>>)
                            ELSE Bytes(<<"<">>))
             /\ pos = (IF d \in {"=", ">"} THEN ev.p + 1 ELSE ev.p)
             /\ start = ByteOffset(pos)
             /\ state = "Start"
             /\ d \notin {"=", ">"} => CurrentChar(pos) = d
    /\ \A i \in 1..(Len(calls) - 1) :
         (calls[i].s = "Lt" /\ calls[i].c \notin {"=", ">"}) =>
           /\ calls[i + 1].first
           /\ calls[i + 1].s = "Start"
           /\ calls[i + 1].c = calls[i].c
           /\ calls[i + 1].p = calls[i].p
    /\ src = <<"<", "=", "x">> =>
         /\ \A i \in 1..Len(out) :
              out[i].r =
                (IF i = 1
                 THEN [kind |-> "Ok", val |-> "LessEqual", lo |-> 0, hi |-> 2,
                       text |-> Bytes(<<"<", "=">>)]
                 ELSE IF i = 2
                 THEN [kind |-> "Ok", val |-> "Ident", lo |-> 2, hi |-> 3,
                       text |-> Bytes(<<"x">>)]
                 ELSE None)
         /\ ret = None => Len(out) >= 3

C15_Witness ==
  /\ automaton = "lexer"
  /\ src = <<"<", "=", "x">>
  /\ Len(out) = 3
  /\ out[1].r.val = "LessEqual"
  /\ out[2].r.lo = 2
  /\ ret = None

(* The source is n digits, then a character the start state of lexer.rs    *)
(* has no transition for, then any text.                                   *)
DigitsThenUnknown(n) ==
  /\ n >= 1
  /\ n < Len(src)
  /\ \A k \in 1..n : IsDigit(src[k])
  /\ LexerHandleChar("Start", src[n + 1]).kind = "Abort"

(* The results are Ok(Num) with the first n characters as lexeme, then     *)
(* Err of character n + 1, then no result; no character after it is passed *)
(* to handle_char.                                                         *)
NumThenErr(n) ==
  /\ \A i \in 1..Len(out) :
       IF i = 1
       THEN out[i].r = [kind |-> "Ok", val |-> "Num", lo |-> 0,
                        hi |-> ByteOffset(n), text |-> TextOfChars(0, n)]
       ELSE IF i = 2
       THEN /\ out[i].r.kind = "Err"
            /\ out[i].r.val = src[n + 1]
       ELSE out[i].r = None
  /\ \A i \in 1..Len(calls) : calls[i].p <= n
  /\ pos <= n + 1
  /\ ret = None => Len(out) >= 3

(* C16, as stated: for a digit run, then a character c without transition *)
(* from the start state, then any text, lexer.rs yields Ok(Num) with the   *)
(* digit run, Err(c), then the end of the sequence, and passes no          *)
(* character after c to handle_char.                                       *)
C16_AnyUnknownChar ==
  automaton = "lexer" =>
    \A n \in 1..Len(src) : DigitsThenUnknown(n) => NumThenErr(n)

(* C16, amended: the same for every such c other than '.', which the       *)
(* number rules accept after a digit run.                                  *)
C16_AbortAfterNumber ==
  automaton = "lexer" =>
    \A n \in 1..Len(src) :
      (DigitsThenUnknown(n) /\ src[n + 1] # ".") => NumThenErr(n)

C16_Witness ==
  /\ automaton = "lexer"
  /\ src = <<"1", "@", "1">>
  /\ Len(out) = 3
  /\ out[1].r.val = "Num"
  /\ out[2].r = [kind |-> "Err", val |-> "@", lo |-> 1, hi |-> 2,
                 text |-> Bytes(<<"@">>)]
  /\ ret = None
  /\ pos = 2
  /\ Len(calls) = 3

(* C17: the engine never panics: in every reachable state                  *)
(* 0 <= lexeme start <= cursor offset <= source length, and every slice    *)
(* taken by finish_token has start <= end <= length, whatever the source   *)
(* and the directives -- Finish(_, false) with nothing accumulated and     *)
(* Abort at the last character included.                                   *)
C17_NeverPanics ==
  LET len    == SrcLen
      cursor == CurrentIndex(pos)
  IN  /\ pc # "panic"
      /\ 0 <= start
      /\ start <= cursor
      /\ cursor <= len
      /\ pos <= Len(src)
      /\ \A i \in 1..Len(spans) :
           /\ 0 <= spans[i].lo
           /\ spans[i].lo <= spans[i].hi
           /\ spans[i].hi <= len
      /\ \A i \in 1..Len(out) :
           /\ 0 <= out[i].r.lo
           /\ out[i].r.lo <= out[i].r.hi
           /\ out[i].r.hi <= len
      /\ (ev.op = "Finish" /\ ~ev.step.flag /\ ev.st = CurrentIndex(ev.p)) =>
           /\ ret.kind = "Ok"
           /\ ret.lo = ret.hi
           /\ ret.text = <<>>
      /\ (ev.op = "Abort" /\ ev.p = Len(src) - 1) =>
           /\ ret.kind = "Err"
           /\ ret.hi = len
           /\ start = len

C17_Witness ==
  /\ ev.op = "Abort"
  /\ Len(src) = 3
  /\ ev.p = 2
  /\ src[3] = "U+00E9"
  /\ ev.st = 1
  /\ ret.kind = "Err"
  /\ ret.hi = SrcLen
  /\ \E i \in 1..Len(spans) : spans[i].kind = "discard"

(* Index of the first pull of a log that returned no result; 0 if none. *)
FirstNone(log) ==
  IF \E i \in 1..Len(log) : log[i].r = None
  THEN CHOOSE i \in 1..Len(log) :
         /\ log[i].r = None
         /\ \A k \in 1..(i - 1) : log[k].r # None
  ELSE 0

(* C18: two engines created by lex over the same source with the same      *)
(* automaton return the same results -- same Ok and Err values, same       *)
(* lexemes, same number of them -- however their pulls are interleaved.    *)
C18_Deterministic ==
  /\ \A i \in 1..Len(out) :
       i <= Len(other.out) => out[i] = other.out[i]
  /\ \A i \in 1..Len(spans) :
       i <= Len(other.spans) => spans[i] = other.spans[i]
  /\ \A i \in 1..Len(calls) :
       i <= Len(other.calls) => calls[i] = other.calls[i]
  /\ (FirstNone(out) # 0 /\ FirstNone(other.out) # 0) =>
       FirstNone(out) = FirstNone(other.out)
  /\ (pc = "idle" /\ Len(out) = Len(other.out) /\ Len(out) < LogCap) =>
       /\ ret = other.ret
       /\ pos = other.pos
       /\ start = other.start
       /\ done = other.done

C18_Witness ==
  /\ Len(src) = 2
  /\ Len(out) = 3
  /\ Len(other.out) = 2
  /\ out[1].r.kind = "Ok"
  /\ out[2].r.kind = "Ok"
  /\ out[2].r.val # out[1].r.val
  /\ ret = None
  /\ other.ret = out[2].r
  /\ ~other.done

(* C19: insert(sym) returns the index of sym if it is present and          *)
(* otherwise appends it and returns the new last index; the table never    *)
(* holds a text twice; an index once returned for a text is returned by    *)
(* every later insert or lookup of it; get(index) returns that text; the   *)
(* indices follow the order of first insertion: 0, 1, 2, ...               *)
C19_SymTableInterns ==
  /\ symev.op = "insert" =>
       IF \E i \in 1..Len(symev.before) : symev.before[i] = symev.sym
       THEN /\ symbols = symev.before
            /\ symev.before[symev.result + 1] = symev.sym
       ELSE /\ symbols = Append(symev.before, symev.sym)
            /\ symev.result = Len(symbols) - 1
  /\ \A i, j \in 1..Len(symbols) : symbols[i] = symbols[j] => i = j
  /\ (symev.op \in {"insert", "lookup"} /\ handed[symev.sym] # NoIndex) =>
       symev.result = handed[symev.sym]
  /\ \A t \in SymTexts :
       handed[t] # NoIndex =>
         /\ SymGet(symbols, handed[t]) = t
         /\ SymLookup(symbols, t) = handed[t]
  /\ symev.op = "get" =>
       \A t \in SymTexts : handed[t] = symev.index => symev.result = t
  /\ symbols = firsts
  /\ \A i \in 1..Len(firsts) : SymLookup(symbols, firsts[i]) = i - 1

C19_Witness ==
  /\ symbols = <<"div", "mod", "a">>
  /\ symev.op = "insert"
  /\ symev.sym = "mod"
  /\ symev.result = 1
  /\ symev.before = symbols
  /\ handed["a"] = 2
  /\ handed["b"] = NoIndex

(* For a block comment whose '/' and '*' are the characters q + 1 and      *)
(* q + 2 of the source: the number of characters up to and including the   *)
(* '*' of the first "*/" after them; 0 if the comment is not closed.       *)
FirstClose(q) ==
  LET closes == {j \in (q + 3)..(Len(src) - 1) :
                   src[j] = "*" /\ src[j + 1] = "/"}
  IN  IF closes = {} THEN 0
      ELSE CHOOSE j \in closes : \A k \in closes : j <= k

(* For a line comment whose two '/' are the characters q + 1 and q + 2:    *)
(* the number of characters before its newline; 0 if there is none.        *)
FirstNewline(q) ==
  LET ends == {j \in (q + 2)..(Len(src) - 1) : src[j + 1] = "\n"}
  IN  IF ends = {} THEN 0
      ELSE CHOOSE j \in ends : \A k \in ends : j <= k

(* The comment opened by call k at character q + 1, whose last character   *)
(* is character e + 1, is taken whole and dropped: every call on one of    *)
(* its characters continues, but for the call on the last, which discards; *)
(* no result has a lexeme in it; once past it the engine has recorded the  *)
(* discard of exactly its text and is in the start state.                  *)
Dropped(k, q, e) ==
  /\ \A m \in k..Len(calls) :
       calls[m].p <= e =>
         calls[m].step.kind = (IF calls[m].p = e THEN "Discard" ELSE "Continue")
  /\ \A i \in 1..Len(out) :
       Returned(i) =>
         (out[i].r.hi <= ByteOffset(q) \/ out[i].r.lo >= ByteOffset(e + 1))
  /\ pos > e =>
       \E i \in 1..Len(spans) :
         spans[i] = [kind |-> "discard", lo |-> ByteOffset(q),
                     hi |-> ByteOffset(e + 1)]
  /\ (pos = e + 1 /\ ev.p = e) =>
       /\ state = "Start"
       /\ start = ByteOffset(e + 1)

(* C20: in lexer.rs a block comment opened by "/*" is closed by the first  *)
(* "*/" after it, also one preceded by further '*' as in "/***/", and a    *)
(* line comment opened by "//" by the next newline; the comment is         *)
(* discarded without a token and lexing resumes in the start state at the  *)
(* character after it.                                                     *)
C20_CommentsClose ==
  automaton = "lexer" =>
    \A k \in 1..Len(calls) :
      LET q == calls[k].p
      IN  (calls[k].s = "Start" /\ calls[k].c = "/" /\ q + 2 <= Len(src)) =>
            /\ (src[q + 2] = "*" /\ FirstClose(q) # 0) =>
                 Dropped(k, q, FirstClose(q))
            /\ (src[q + 2] = "/" /\ FirstNewline(q) # 0) =>
                 Dropped(k, q, FirstNewline(q))

(* C20, the part the code keeps: line comments, and block comments whose   *)
(* first "*/" is not preceded by a '*'.                                    *)
C20_SimpleCommentsClose ==
  automaton = "lexer" =>
    \A k \in 1..Len(calls) :
      LET q == calls[k].p
      IN  (calls[k].s = "Start" /\ calls[k].c = "/" /\ q + 2 <= Len(src)) =>
            /\ (/\ src[q + 2] = "*"
                /\ FirstClose(q) # 0
                /\ (FirstClose(q) > q + 3 => src[FirstClose(q) - 1] # "*")) =>
                 Dropped(k, q, FirstClose(q))
            /\ (src[q + 2] = "/" /\ FirstNewline(q) # 0) =>
                 Dropped(k, q, FirstNewline(q))

(* The run of "/***/1" to its end: nothing but the end of the sequence. *)
C20_Swallowed ==
  /\ automaton = "lexer"
  /\ src = <<"/", "*", "*", "*", "/", "1">>
  /\ ret = None
  /\ Len(out) = 1
  /\ spans = <<>>
  /\ state = "BlockComment"

(* The call keeps its character for the next call: it returned             *)
(* Finish(_, false).                                                       *)
KeepsChar(call) == call.step.kind = "Finish" /\ ~call.step.flag

(* The handle_char calls go through the source in order, none skipped: the *)
(* first is on the first character, and each next one is on the same       *)
(* character after Finish(_, false) and on the following one otherwise.    *)
CallsInOrder ==
  /\ \A i \in 1..Len(calls) :
       /\ calls[i].p < Len(src)
       /\ calls[i].c = src[calls[i].p + 1]
  /\ Len(calls) >= 1 => calls[1].p = 0
  /\ \A i \in 1..(Len(calls) - 1) :
       calls[i + 1].p = (IF KeepsChar(calls[i]) THEN calls[i].p
                         ELSE calls[i].p + 1)
  /\ \A i, j \in 1..Len(calls) :
       (i < j /\ calls[i].p = calls[j].p) =>
         \A k \in i..(j - 1) : KeepsChar(calls[k])

(* C21, as stated: every character of the source is passed to handle_char, *)
(* in source order, a second time only after Finish(_, false): when the    *)
(* pulls have come to return no result, no character was left out.         *)
C21_EveryCharPassed ==
  /\ CallsInOrder
  /\ (ret = None /\ Len(calls) < CallCap) =>
       \A q \in 0..(Len(src) - 1) : \E i \in 1..Len(calls) : calls[i].p = q

(* C21, amended: the characters passed to handle_char are a prefix of the  *)
(* source, in order and none skipped, a character a second time only after *)
(* Finish(_, false); the prefix is the whole source when the pulls end     *)
(* without an Abort, and ends with the aborting character otherwise.       *)
C21_PrefixPassedInOrder ==
  /\ CallsInOrder
  /\ (ret = None /\ Len(calls) < CallCap) =>
       LET last == IF \E i \in 1..Len(calls) : calls[i].step.kind = "Abort"
                   THEN (CHOOSE i \in 1..Len(calls) :
                           calls[i].step.kind = "Abort")
                   ELSE 0
       IN  /\ \A q \in 0..(Len(src) - 1) :
                (last = 0 \/ q <= calls[last].p) <=>
                  \E i \in 1..Len(calls) : calls[i].p = q
           /\ last # 0 => last = Len(calls)

C21_Witness ==
  /\ Len(src) = 3
  /\ Len(calls) = 4
  /\ KeepsChar(calls[2])
  /\ calls[3].p = 1
  /\ calls[3].step.kind = "Continue"
  /\ calls[4].p = 2
  /\ calls[4].step.kind = "Abort"
  /\ ret = None

(* C22: in lexer.rs handle_char never returns Finish(_, false) in the      *)
(* start state and try_finish returns nothing there; so every result, Ok   *)
(* or Err, has a non-empty lexeme, every pull that returns a result moves  *)
(* the lexeme start forward by at least one character, and a source has at *)
(* most as many results as characters.                                     *)
C22_LexerProgress ==
  automaton = "lexer" =>
    /\ \A c \in LexerChars \cup {"\n", "-", "a", "U+00E9"} :
         LET step == LexerHandleChar("Start", c)
         IN  ~(step.kind = "Finish" /\ ~step.flag)
    /\ LexerTryFinish("Start") = "None"
    /\ \A i \in 1..Len(calls) :
         calls[i].s = "Start" =>
           ~(calls[i].step.kind = "Finish" /\ ~calls[i].step.flag)
    /\ \A i \in 1..Len(out) :
         Returned(i) =>
           /\ out[i].r.lo < out[i].r.hi
           /\ Len(out[i].r.text) >= 1
           /\ i > 1 => out[i - 1].r.hi <= out[i].r.lo
    /\ (pc = "idle" /\ ret.kind \in {"Ok", "Err"}) =>
         /\ start = ret.hi
         /\ start > ret.lo
    /\ Cardinality({i \in 1..Len(out) : Returned(i)}) <= Len(src)

C22_Witness ==
  /\ automaton = "lexer"
  /\ src = <<"=", "<", "@">>
  /\ Len(out) = 3
  /\ out[1].r.val = "Equal"
  /\ out[2].r.val = "Less"
  /\ out[2].r.lo = 1
  /\ ret.kind = "Err"
  /\ start = 3

(* The first character at or after character i that is not of the run      *)
(* (alnum: an alphanumeric run, otherwise a digit run); Len(input) + 1 if  *)
(* the run reaches the end.                                                *)
RunEnd(i, alnum) ==
  LET InRun(c) == IF alnum THEN IsAlphanumeric(c) ELSE IsDecimal(c)
  IN  CHOOSE j \in i..(Len(input) + 1) :
        /\ j = Len(input) + 1 \/ ~InRun(input[j])
        /\ \A k \in i..(j - 1) : InRun(input[k])

(* The maximal digit runs and the maximal alphanumeric runs starting with  *)
(* a letter, from character i on, each as the characters lo .. hi.         *)
RECURSIVE RunsFrom(_)
RunsFrom(i) ==
  IF i > Len(input) THEN <<>>
  ELSE IF IsDecimal(input[i])
  THEN <<[kind |-> "Num", lo |-> i, hi |-> RunEnd(i, FALSE) - 1]>>
         \o RunsFrom(RunEnd(i, FALSE))
  ELSE IF IsAlphabetic(input[i])
  THEN <<[kind |-> "Sym", lo |-> i, hi |-> RunEnd(i, TRUE) - 1]>>
         \o RunsFrom(RunEnd(i, TRUE))
  ELSE RunsFrom(i + 1)

RECURSIVE DecimalValue(_, _)
DecimalValue(lo, hi) ==
  IF lo > hi THEN 0
  ELSE DecimalValue(lo, hi - 1) * 10 + DigitValue(input[hi])

IsRunToken(x) == x.kind \in {"Num", "Sym"}

(* The Num and Sym tokens returned are those of the runs, in order: as     *)
(* many when the lexer has returned None, and each with the value of its   *)
(* run, or the index of its text in the table.                             *)
TokensOf(runs) ==
  LET toks == SelectSeq(items, IsRunToken)
  IN  /\ Len(toks) <= Len(runs)
      /\ (Len(items) >= 1 /\ items[Len(items)].kind = "None") =>
           Len(toks) = Len(runs)
      /\ \A k \in 1..Len(toks) :
           /\ k <= Len(runs)
           /\ toks[k].kind = runs[k].kind
           /\ toks[k].kind = "Num" =>
                toks[k].val = DecimalValue(runs[k].lo, runs[k].hi)
           /\ toks[k].kind = "Sym" =>
                SymGet(symbols, toks[k].val)
                  = SubSeq(input, runs[k].lo, runs[k].hi)

(* C23: in the Lexer of the calculator every maximal run of digits yields  *)
(* one Num token with the decimal value of the run, and every maximal      *)
(* alphanumeric run starting with a letter one Sym token, whether the run  *)
(* is followed by a character or reaches the end of the input.             *)
C23_RunsYieldTokens == TokensOf(RunsFrom(1))

(* C23, the part the code keeps: the runs that are followed by a           *)
(* character.                                                              *)
C23_FollowedRunsYieldTokens ==
  LET runs == RunsFrom(1)
      IsFollowed(r) == r.hi < Len(input)
  IN  TokensOf(SelectSeq(runs, IsFollowed))

(* The run of "1+2" to its end: the 2 is lost. *)
C23_LastRunLost ==
  /\ input = <<"1", "+", "2">>
  /\ Len(items) = 3
  /\ items[1].kind = "Num"
  /\ items[2].kind = "Plus"
  /\ items[3].kind = "None"
  /\ iter = 3

(* The characters of the source that are not newlines, in order, each as   *)
(* its index, from character i on.                                         *)
RECURSIVE NonNewlines(_)
NonNewlines(i) ==
  IF i > Len(src) THEN <<>>
  ELSE IF src[i] = "\n" THEN NonNewlines(i + 1)
  ELSE <<i>> \o NonNewlines(i + 1)

(* C24: the automaton of nfa2dot.rs never aborts: the engine returns one   *)
(* Ok token per character that is not a newline, in source order, with     *)
(* that one character as lexeme, nothing for the newlines, and never an    *)
(* Err, so that the unwrap of a returned result in Parser::atom finds Ok.  *)
C24_RegexNeverAborts ==
  automaton = "regex" =>
    LET at == NonNewlines(1)
    IN  /\ \A i \in 1..Len(calls) : calls[i].step.kind # "Abort"
        /\ ret.kind # "Err"
        /\ \A i \in 1..Len(out) :
             IF i <= Len(at)
             THEN /\ out[i].r.kind = "Ok"
                  /\ out[i].r.val = RegexHandleChar("MyState", src[at[i]]).arg
                  /\ out[i].r.lo = ByteOffset(at[i] - 1)
                  /\ out[i].r.hi = ByteOffset(at[i])
                  /\ out[i].r.text = Utf8(src[at[i]])
                  /\ out[i].by = "Finish"
             ELSE out[i].r = None
        /\ ret = None => Len(out) > Len(at)
        /\ \A i \in 1..Len(spans) :
             spans[i].kind = "discard" =>
               Slice(spans[i].lo, spans[i].hi) = Utf8("\n")

C24_Witness ==
  /\ automaton = "regex"
  /\ src = <<"(", "\n", "U+00E9">>
  /\ Len(out) = 3
  /\ out[1].r.val = "OpenParen"
  /\ out[2].r.val = "NonSpecial"
  /\ out[2].r.text = <<195, 169>>
  /\ out[2].r.lo = 2
  /\ ret = None

====
